---- MODULE Spec2Model ----
(***************************************************************************)
(* Model of package indicators (indicators.go): the base indicator state,  *)
(* the float and integer bounds trackers, the two composite bases, and the *)
(* per-bar protocol a concrete indicator runs on top of them.              *)
(*                                                                         *)
(* indicators.go holds the constructors, the seeds and the accessors.      *)
(* The concrete indicators (their constructors' validation and their       *)
(* per-bar ReceiveTick step) are not part of indicators.go; they are       *)
(* modelled from the specification's sections 4.1, 4.2, 4.6, 4.7 and 7.    *)
(*                                                                         *)
(* Numbers.  Only the ORDER of values matters to this code (it compares    *)
(* and copies, it never does arithmetic on emitted values), so float64 and *)
(* int64 are modelled by order-isomorphic finite lattices:                 *)
(*   float64: the ranks -FloatTop..FloatTop; rank 0 is 0.0, rank 1 is the  *)
(*            least positive float (math.SmallestNonzeroFloat64), rank     *)
(*            FloatTop is math.MaxFloat64.  NaN and the infinities are     *)
(*            not modelled.                                                *)
(*   int64:   two's complement of IntBits bits, MinInt64..MaxInt64.        *)
(***************************************************************************)
EXTENDS Integers, Sequences, FiniteSets, TLC

VARIABLES
    pc,        \* "new" | "idle" | "callback" | "failed"
    kind,      \* "float" | "int": which composite base the indicator embeds
    req,       \* the arguments of the constructor call
    ind,       \* the composite base (Nil when construction returned no indicator)
    err,       \* the error the constructor returned (ErrNil for none)
    barsFed,   \* number of source bars handed to the indicator (1-based index of the last)
    emitted    \* the value-available callbacks invoked so far, in order

vars == <<pc, kind, req, ind, err, barsFed, emitted>>

\* ------------------------------------------------------------------ bounds
MaxBars == 4
MaxPeriod == 2
FloatTop == 2
IntBits == 2

\* ------------------------------------------------------- program constants
ErrNil == "nil"
ErrSourceDataEmpty == "Source data is empty"
ErrNotEnoughSourceDataForLookbackPeriod == "Source data does not contain enough data for the specfied lookback period"
ErrLookbackPeriodMustBeGreaterThanZero == "Lookback period must be greater than 0"
ErrValueAvailableActionIsNil == "ValueAvailableAction cannot be empty"

MinimumLookbackPeriod_AllowsNegative == 0 - 1
MinimumLookbackPeriod == 0
MaximumLookbackPeriod == 100000

MaxFloat64 == FloatTop
SmallestNonzeroFloat64 == 1
MaxInt64 == 2^(IntBits - 1) - 1
MinInt64 == -(2^(IntBits - 1))

FloatValues == (-MaxFloat64)..MaxFloat64
IntValues == MinInt64..MaxInt64

Nil == [isNil |-> TRUE]

\* --------------------------------------------------------- bounds trackers
newBaseFloatBounds == [minValue |-> MaxFloat64, maxValue |-> SmallestNonzeroFloat64]

newBaseIntBounds == [minValue |-> MaxInt64, maxValue |-> MinInt64]

baseFloatBounds_MinValue_ReturnsMax(b) == b.maxValue
baseFloatBounds_MinValue(b) == b.minValue

baseFloatBounds_MaxValue_ReturnsMin(b) == b.minValue
baseFloatBounds_MaxValue(b) == b.maxValue

baseIntBounds_MinValue(b) == b.minValue

baseIntBounds_MaxValue(b) == b.maxValue

\* ----------------------------------------------------- base indicator state
newBaseIndicator_ZeroValidFromBar(lookbackPeriod) ==
    [validFromBar |-> 0, dataLength |-> 0, lookbackPeriod |-> lookbackPeriod]
newBaseIndicator_DropsLookback(lookbackPeriod) ==
    [validFromBar |-> -1, dataLength |-> 0, lookbackPeriod |-> 0]
newBaseIndicator(lookbackPeriod) ==
    [validFromBar |-> -1, dataLength |-> 0, lookbackPeriod |-> lookbackPeriod]

baseIndicator_ValidFromBar(b) == b.validFromBar

baseIndicator_GetLookbackPeriod(b) == b.lookbackPeriod

baseIndicator_Length_ReturnsLookback(b) == b.lookbackPeriod
baseIndicator_Length(b) == b.dataLength

\* ---------------------------------------------------------- composite bases
newBaseIndicatorWithFloatBounds(lookbackPeriod) ==
    [baseIndicator |-> newBaseIndicator(lookbackPeriod), bounds |-> newBaseFloatBounds]

newBaseIndicatorWithIntBounds(lookbackPeriod) ==
    [baseIndicator |-> newBaseIndicator(lookbackPeriod), bounds |-> newBaseIntBounds]

\* The accessors promoted through the embedded structs, on the indicator under test.
ValidFromBar == baseIndicator_ValidFromBar(ind.baseIndicator)
GetLookbackPeriod == baseIndicator_GetLookbackPeriod(ind.baseIndicator)
Length == baseIndicator_Length(ind.baseIndicator)
MinValue ==
    IF kind = "float" THEN baseFloatBounds_MinValue(ind.bounds)
    ELSE baseIntBounds_MinValue(ind.bounds)
MaxValue ==
    IF kind = "float" THEN baseFloatBounds_MaxValue(ind.bounds)
    ELSE baseIntBounds_MaxValue(ind.bounds)

\* ------------------------------------------------- the concrete indicator
\* (modelled from the specification: sections 4.1, 4.2, 4.6, 4.7 and 7)

\* The lookback periods a constructor call is tried with: around zero, the small
\* periods the bars can outrun, and both sides of MaximumLookbackPeriod.
LookbackInputs ==
    ((0 - 1)..MaxPeriod) \cup {MaximumLookbackPeriod, MaximumLookbackPeriod + 1}

SourceLengths == 0..MaxBars

Values == IF kind = "float" THEN FloatValues ELSE IntValues

\* Section 7: a strictly positive period lies in
\* [MinimumLookbackPeriod+1, MaximumLookbackPeriod].
ValidLookbackPeriod(lookbackPeriod) ==
    /\ lookbackPeriod >= MinimumLookbackPeriod + 1
    /\ lookbackPeriod <= MaximumLookbackPeriod

newComposite(lookbackPeriod) ==
    IF kind = "float" THEN newBaseIndicatorWithFloatBounds(lookbackPeriod)
    ELSE newBaseIndicatorWithIntBounds(lookbackPeriod)

\* Section 4.2: min = v if v < min else min; max = v if v > max else max.
UpdateMinMax(b, v) ==
    [minValue |-> IF v < b.minValue THEN v ELSE b.minValue,
     maxValue |-> IF v > b.maxValue THEN v ELSE b.maxValue]

\* Sections 4.1 and 4.6: one emission.  validFromBar is set on the first one,
\* the bounds and the length are updated, and only then is the callback invoked.
Emit(c, v, streamBarIndex) ==
    [baseIndicator |->
        [validFromBar |-> IF c.baseIndicator.validFromBar = -1 THEN streamBarIndex
                          ELSE c.baseIndicator.validFromBar,
         dataLength |-> c.baseIndicator.dataLength + 1,
         lookbackPeriod |-> c.baseIndicator.lookbackPeriod],
     bounds |-> UpdateMinMax(c.bounds, v)]

\* The outcome of the online constructor of an indicator that requires a strictly
\* positive period: <<error, indicator>>.
NewIndicatorResult(lookbackPeriod) ==
    IF ~ValidLookbackPeriod(lookbackPeriod)
    THEN <<ErrLookbackPeriodMustBeGreaterThanZero, Nil>>
    ELSE <<ErrNil, newComposite(lookbackPeriod)>>

\* The outcome of the offline constructor over a series of sourceLength bars.
NewIndicatorWithSrcLenResult_NoLengthCheck(lookbackPeriod, sourceLength) ==
    NewIndicatorResult(lookbackPeriod)
NewIndicatorWithSrcLenResult(lookbackPeriod, sourceLength) ==
    IF ~ValidLookbackPeriod(lookbackPeriod)
    THEN <<ErrLookbackPeriodMustBeGreaterThanZero, Nil>>
    ELSE IF sourceLength = 0
    THEN <<ErrSourceDataEmpty, Nil>>
    ELSE IF sourceLength < lookbackPeriod
    THEN <<ErrNotEnoughSourceDataForLookbackPeriod, Nil>>
    ELSE <<ErrNil, newComposite(lookbackPeriod)>>

Constructed(ctor, lookbackPeriod, sourceLength, result) ==
    /\ pc = "new"
    /\ req' = [ctor |-> ctor, lookbackPeriod |-> lookbackPeriod,
               sourceLength |-> sourceLength]
    /\ err' = result[1]
    /\ ind' = result[2]
    /\ pc' = IF result[1] = ErrNil THEN "idle" ELSE "failed"
    /\ UNCHANGED <<kind, barsFed, emitted>>

\* Online construction with a lookback period that must be strictly positive.
NewIndicator ==
    \E lookbackPeriod \in LookbackInputs :
        Constructed("online", lookbackPeriod, 0, NewIndicatorResult(lookbackPeriod))

\* Offline construction: the length of the historical series is known.
NewIndicatorWithSrcLen ==
    \E lookbackPeriod \in LookbackInputs, sourceLength \in SourceLengths :
        Constructed("offline", lookbackPeriod, sourceLength,
                    NewIndicatorWithSrcLenResult(lookbackPeriod, sourceLength))

\* Construction of an indicator with no warm-up: it takes no period and uses
\* the minimum lookback.
NewIndicatorNoLookback ==
    Constructed("nolookback", MinimumLookbackPeriod, 0,
                <<ErrNil, newComposite(MinimumLookbackPeriod)>>)

\* One source bar is handed to the indicator.  Inside the warm-up the bar is
\* consumed and nothing else happens; past it the indicator emits and calls
\* the value-available callback, which runs until CallbackReturn.
ReceiveTick ==
    /\ pc = "idle"
    /\ barsFed < MaxBars
    /\ req.ctor = "offline" => barsFed < req.sourceLength
    /\ \E v \in Values :
        LET streamBarIndex == barsFed + 1 IN
        /\ barsFed' = streamBarIndex
        /\ IF streamBarIndex > ind.baseIndicator.lookbackPeriod
           THEN /\ ind' = Emit(ind, v, streamBarIndex)
                /\ emitted' = Append(emitted,
                                     [dataItem |-> v, streamBarIndex |-> streamBarIndex])
                /\ pc' = "callback"
           ELSE UNCHANGED <<ind, emitted, pc>>
    /\ UNCHANGED <<kind, req, err>>

\* The value-available callback returns to the indicator, which returns to its caller.
CallbackReturn ==
    /\ pc = "callback"
    /\ pc' = "idle"
    /\ UNCHANGED <<kind, req, ind, err, barsFed, emitted>>

Init ==
    /\ pc = "new"
    /\ kind \in {"float", "int"}
    /\ req = [ctor |-> "none", lookbackPeriod |-> 0, sourceLength |-> 0]
    /\ ind = Nil
    /\ err = ErrNil
    /\ barsFed = 0
    /\ emitted = <<>>

Next ==
    \/ NewIndicator
    \/ NewIndicatorWithSrcLen
    \/ NewIndicatorNoLookback
    \/ ReceiveTick
    \/ CallbackReturn

Spec == Init /\ [][Next]_vars

TypeOK ==
    /\ pc \in {"new", "idle", "callback", "failed"}
    /\ kind \in {"float", "int"}
    /\ barsFed \in 0..MaxBars
    /\ (ind = Nil) <=> (pc \in {"new", "failed"})

\* ------------------------------------------------------ derived observations
\* An indicator exists: construction succeeded.
Live == pc \in {"idle", "callback"}

\* The lookback period the constructor was asked for.
P == req.lookbackPeriod

EmittedValues == {emitted[i].dataItem : i \in 1..Len(emitted)}
MinOf(S) == CHOOSE m \in S : \A x \in S : m <= x
MaxOf(S) == CHOOSE m \in S : \A x \in S : m >= x

\* Section 4.7: the lifecycle state, read off what has happened so far.
Lifecycle ==
    IF emitted # <<>> THEN "Valid"
    ELSE IF barsFed = 0 THEN "Unattached"
    ELSE "WarmingUp"

Rank(state) == CASE state = "Unattached" -> 0 [] state = "WarmingUp" -> 1 [] state = "Valid" -> 2

\* --------------------------------------------------------------------- C1
\* C1 (as claimed): for both bounds trackers, after every emission MinValue() is
\* the minimum and MaxValue() the maximum of the values emitted so far, for any
\* sequence of values, all-zero and all-negative ones included.
C1_BoundsAreMinMaxOfEmitted ==
    (Live /\ emitted # <<>>) =>
        /\ MinValue = MinOf(EmittedValues)
        /\ MaxValue = MaxOf(EmittedValues)

\* The integer tracker alone does satisfy C1's statement; so does the minimum of
\* the float tracker.
IntBoundsAreMinMaxOfEmitted ==
    (Live /\ emitted # <<>>) =>
        /\ MinValue = MinOf(EmittedValues)
        /\ kind = "int" => MaxValue = MaxOf(EmittedValues)

\* --------------------------------------------------------------------- C2
\* C2: for every lookback period p with 0 < p <= MaximumLookbackPeriod, an
\* indicator that has processed no bars reports ValidFromBar() = -1,
\* Length() = 0 and GetLookbackPeriod() = p.
C2_FreshIndicator ==
    (Live /\ barsFed = 0 /\ P > 0 /\ P <= MaximumLookbackPeriod) =>
        /\ ValidFromBar = -1
        /\ Length = 0
        /\ GetLookbackPeriod = P

C2_Witness ==
    /\ pc = "idle"
    /\ barsFed = 0
    /\ P = MaximumLookbackPeriod
    /\ GetLookbackPeriod = MaximumLookbackPeriod

\* --------------------------------------------------------------------- C3
\* C3: with lookback period p, the first value-available callback fires on bar
\* p+1 and carries streamBarIndex = p+1; ValidFromBar() is p+1 from that step
\* on, in every later state, however many further bars are fed.
C3_FirstEmissionAtLookbackPlusOne ==
    Live =>
        /\ (barsFed >= P + 1) <=> (emitted # <<>>)
        /\ emitted # <<>> =>
            /\ emitted[1].streamBarIndex = P + 1
            /\ ValidFromBar = P + 1
        /\ emitted = <<>> => ValidFromBar = -1

C3_Witness ==
    /\ Live
    /\ P >= 1
    /\ barsFed >= P + 2
    /\ Len(emitted) >= 2
    /\ ValidFromBar = P + 1

\* --------------------------------------------------------------------- C4
\* C4: while fewer than p bars have been fed, Length() = 0, ValidFromBar() = -1
\* and no callback has fired; and every callback that fires carries a
\* streamBarIndex >= ValidFromBar().
C4_NoEmissionInsideWarmUp ==
    Live =>
        /\ barsFed < P =>
            /\ Length = 0
            /\ ValidFromBar = -1
            /\ emitted = <<>>
        /\ \A i \in 1..Len(emitted) : emitted[i].streamBarIndex >= ValidFromBar

C4_Witness ==
    /\ Live
    /\ barsFed > 0
    /\ barsFed < P
    /\ P <= MaxPeriod
    /\ Length = 0

\* --------------------------------------------------------------------- C5
\* C5: constructing an indicator that requires a strictly positive period with
\* a lookback period outside [1, MaximumLookbackPeriod] fails with
\* ErrLookbackPeriodMustBeGreaterThanZero and yields no indicator; the period
\* is never replaced by a default.
C5_BadLookbackIsRejected ==
    /\ (req.ctor \in {"online", "offline"} /\ (P <= 0 \/ P > MaximumLookbackPeriod)) =>
        /\ err = ErrLookbackPeriodMustBeGreaterThanZero
        /\ ind = Nil
        /\ pc = "failed"
    /\ (req.ctor \in {"online", "offline"} /\ Live) => GetLookbackPeriod = P

C5_Witness ==
    /\ pc = "failed"
    /\ req.ctor = "online"
    /\ P = 0
    /\ err = ErrLookbackPeriodMustBeGreaterThanZero

\* --------------------------------------------------------------------- C6
\* C6: offline construction with (valid) lookback period p over a series of n
\* bars fails with ErrSourceDataEmpty when n = 0 and with
\* ErrNotEnoughSourceDataForLookbackPeriod when 0 < n < p; no indicator is
\* returned, no bar is processed and no callback fires.
C6_ShortSeriesIsRejected ==
    (req.ctor = "offline" /\ P > 0 /\ P <= MaximumLookbackPeriod) =>
        /\ req.sourceLength = 0 => err = ErrSourceDataEmpty
        /\ (0 < req.sourceLength /\ req.sourceLength < P) =>
                err = ErrNotEnoughSourceDataForLookbackPeriod
        /\ req.sourceLength < P =>
            /\ pc = "failed"
            /\ ind = Nil
            /\ barsFed = 0
            /\ emitted = <<>>

C6_Witness ==
    /\ pc = "failed"
    /\ req.ctor = "offline"
    /\ req.sourceLength > 0
    /\ req.sourceLength < P
    /\ err = ErrNotEnoughSourceDataForLookbackPeriod

\* --------------------------------------------------------------------- C7
\* The parts of C7 that do not mention the extent of WarmingUp: the lifecycle
\* only moves forward; once Valid, every further bar emits; ValidFromBar is -1
\* until Valid is entered, changes on entering Valid and never otherwise.
LifecycleMovesForward ==
    (Live /\ Live') => Rank(Lifecycle') >= Rank(Lifecycle)

ValidEmitsOnEveryBar ==
    (Live /\ Lifecycle = "Valid" /\ barsFed' # barsFed) =>
        Len(emitted') = Len(emitted) + 1

ValidFromBarSetOnce ==
    (Live /\ Live') =>
        /\ (ValidFromBar' # ValidFromBar) <=> (Lifecycle # "Valid" /\ Lifecycle' = "Valid")
        /\ (ValidFromBar' # ValidFromBar) => ValidFromBar = -1

\* C7 (as claimed): the lifecycle only moves forward Unattached -> WarmingUp ->
\* Valid; WarmingUp holds exactly while the number of bars consumed is below the
\* lookback period with no emission; once Valid every further bar emits; and
\* ValidFromBar changes exactly once, from -1, on entering Valid.
C7_WarmingUpExactlyBelowLookback ==
    /\ [](Live /\ barsFed > 0 =>
            ((Lifecycle = "WarmingUp") <=> (barsFed < P /\ emitted = <<>>)))
    /\ [][LifecycleMovesForward]_vars
    /\ [][ValidEmitsOnEveryBar]_vars
    /\ [][ValidFromBarSetOnce]_vars

\* C7 (amended): as C7, but WarmingUp lasts through bar p: it holds exactly
\* while at least one and at most p bars have been consumed, with no emission
\* (the first emission, and the entry to Valid, is on bar p+1).
C7_WarmingUpThroughLookback ==
    /\ [](Live /\ barsFed > 0 =>
            ((Lifecycle = "WarmingUp") <=> (barsFed <= P /\ emitted = <<>>)))
    /\ [](Live /\ Lifecycle # "Valid" => ValidFromBar = -1)
    /\ [][LifecycleMovesForward]_vars
    /\ [][ValidEmitsOnEveryBar]_vars
    /\ [][ValidFromBarSetOnce]_vars

C7_Witness ==
    /\ Live
    /\ P >= 1
    /\ barsFed = P
    /\ Lifecycle = "WarmingUp"
    /\ ValidFromBar = -1

\* --------------------------------------------------------------------- C8
\* C8: Length() never decreases, rises by exactly 1 on each bar that emits and
\* by 0 on every other bar, so Length() is always the number of values emitted
\* so far (not the number of bars fed).
LengthStep ==
    (Live /\ Live') =>
        /\ Length' >= Length
        /\ Length' - Length = Len(emitted') - Len(emitted)
        /\ Length' - Length \in {0, 1}

C8_LengthCountsEmissions ==
    /\ [](Live => Length = Len(emitted))
    /\ [][LengthStep]_vars

C8_Witness ==
    /\ Live
    /\ Length >= 2
    /\ barsFed > Length

\* --------------------------------------------------------------------- C9
\* C9: when a value-available callback is invoked with value v and index i, the
\* indicator's state already includes that emission: Length() counts it,
\* MinValue() <= v <= MaxValue() and ValidFromBar() <= i; and the callback for
\* bar N has returned before bar N+1 is processed.
LastEmitted == emitted[Len(emitted)]

CallbackReturnsBeforeNextBar ==
    (barsFed' # barsFed) => pc = "idle"

C9_StateUpdatedBeforeCallback ==
    /\ [](pc = "callback" =>
            /\ emitted # <<>>
            /\ Length = Len(emitted)
            /\ MinValue <= LastEmitted.dataItem
            /\ LastEmitted.dataItem <= MaxValue
            /\ ValidFromBar <= LastEmitted.streamBarIndex
            /\ LastEmitted.streamBarIndex = barsFed)
    /\ [][CallbackReturnsBeforeNextBar]_vars

C9_Witness ==
    /\ pc = "callback"
    /\ Len(emitted) >= 2
    /\ MinValue < LastEmitted.dataItem
    /\ LastEmitted.dataItem < MaxValue

\* -------------------------------------------------------------------- C10
\* C10: for both bounds trackers, once a value has been recorded
\* MinValue() <= MaxValue(); and across any step MinValue() never increases and
\* MaxValue() never decreases.
BoundsStep ==
    (Live /\ Live') =>
        /\ MinValue' <= MinValue
        /\ MaxValue' >= MaxValue

C10_BoundsOrderedAndMonotone ==
    /\ [](Live /\ emitted # <<>> => MinValue <= MaxValue)
    /\ [][BoundsStep]_vars

C10_Witness ==
    /\ Live
    /\ Len(emitted) >= 2
    /\ emitted[2].dataItem < emitted[1].dataItem
    /\ MinValue = emitted[2].dataItem
    /\ MaxValue > MinValue

====
